---- MODULE Spec2Model ----
(***************************************************************************)
(* Model of ros/src/tl_detector/tl_detector.py: the TLDetector node.       *)
(* The node keeps the latest pose, path (waypoints) and light list, and on *)
(* every camera image runs one pass: process_traffic_lights followed by    *)
(* the debounce of image_cb, which may publish on /traffic_waypoint.       *)
(*                                                                         *)
(* Python's None is the empty tuple and a present value x is <<x>>, so     *)
(* that optional values stay comparable.  Positions are <<x, y>>.          *)
(* An exception that leaves image_cb is caught by the subscriber that      *)
(* invoked the callback: the pass ends there and the node keeps running.   *)
(***************************************************************************)
EXTENDS Integers, Sequences, FiniteSets, TLC

VARIABLES
    pose,                 \* self.pose: None or <<position>>
    waypoints,            \* self.waypoints: None or <<sequence of positions>>
    lights,               \* self.lights: sequence of light positions
    has_image,            \* self.has_image (set by image_cb)
    camera_image,         \* self.camera_image
    stop_line_positions,  \* self.config['stop_line_positions']
    state,                \* self.state: raw colour observed last
    last_state,           \* self.last_state: confirmed colour
    last_wp,              \* self.last_wp: value remembered as published
    state_count,          \* self.state_count
    pub,                  \* what the last handler published on /traffic_waypoint
    res,                  \* outcome of the last image pass (Idle after other handlers)
    run,                  \* consecutive passes that delivered the colour in `state`
    base_waypoints,       \* the path most recently received on /base_waypoints
    wp_path,              \* self.waypoints when lines 88-90 last assigned last_wp
    pc,                   \* where a pass taken step by step stands: "idle" or "loop"
    loc,                  \* the locals of process_traffic_lights in that pass
    call,                 \* a call of one method on its own: its arguments and answer
    thr                   \* two image_cb threads past line 76: position and locals

vars == <<pose, waypoints, lights, has_image, camera_image, stop_line_positions,
          state, last_state, last_wp, state_count, pub, res, run, base_waypoints, wp_path,
          pc, loc, call, thr>>

stab == <<state, last_state, last_wp, state_count>>

----------------------------------------------------------------------------
(* Bounds of the model *)

\* image_cb is not taken once state_count has reached this value
MaxCount == 5
\* the same for a pass taken step by step
MaxCountSteps == 2
\* length of the straight path
LongLen == 102
\* longest path handed to get_closest_waypoint on its own
MaxPathLen == 3
\* longest light list and stop-line list handed to the loop over the lights
MaxListLen == 2
\* projected pixels lie at most this far from 0 in x and in y
MaxPixel == 45
\* two image events are not delivered at once when state_count has reached this
MaxCountTwo == 3

----------------------------------------------------------------------------
(* Values *)

None == <<>>
Some(x) == <<x>>

STATE_COUNT_THRESHOLD == 3
MIN_DIST_INIT == 1000000
VISIBLE_RANGE == 100

RED == "RED"
UNKNOWN == "UNKNOWN"
Colours == {"RED", "YELLOW", "GREEN", "UNKNOWN"}

\* The paths a Lane message may carry, each named; the stored self.waypoints
\* holds the name and Lane(w) is the message's waypoints list.
\* "U": a lane whose index order differs from the distance order.
Paths == {"empty", "U", "straight"}
Lane(w) == CASE w = "empty" -> <<>>
             [] w = "U" -> << <<0, 0>>, <<1, 0>>, <<1, 1>>, <<0, 1>> >>
             [] w = "straight" -> [i \in 1..LongLen |-> <<i - 1, 0>>]

PosePts == {<<0, 0>>, <<0, 1>>, <<1, 0>>}
LightLists == {<<>>, << <<1, 1>> >>, << <<100, 0>> >>,
               << <<1, 1>>, <<0, 1>> >>, << <<0, 1>>, <<1, 1>> >>,
               << <<1, 1>>, <<1, 1>> >>, << <<0, 1>>, <<100, 0>> >>}
StopConfigs == {<<>>, << <<1, 1>>, <<0, 1>>, <<100, 0>> >>}

\* Pose(): a fresh pose has position (0, 0)
DefaultStop == <<0, 0>>

----------------------------------------------------------------------------
(* get_closest_waypoint *)

SqDist(p, q) == (p[1] - q[1]) * (p[1] - q[1]) + (p[2] - q[2]) * (p[2] - q[2])

\* F applied to the value of x, with x evaluated once
With(x, F(_)) == CHOOSE r \in {F(v) : v \in {x}} : TRUE

\* one iteration that keeps the later waypoint when two are equally near
ScanStepKeepsLast(wps, pos, i, acc) ==
    With(acc, LAMBDA a :
        IF a[1] = None \/ SqDist(wps[i], pos) <= a[1][1]
        THEN <<Some(SqDist(wps[i], pos)), i - 1>>
        ELSE a)

\* one iteration of the loop of get_closest_waypoint, on the waypoint at 1-based
\* position i; acc is <<min_distance, min_dist_ind>> and the index kept is
\* Python's 0-based one.  In Python 2 `distance < None` is false.
ScanStep(wps, pos, i, acc) ==
    With(acc, LAMBDA a :
        LET distance == SqDist(wps[i], pos)
            min_distance == a[1]
        IN  IF (min_distance # None /\ distance < min_distance[1]) \/ min_distance = None
            THEN <<Some(distance), i - 1>>
            ELSE a)

\* the iterations lo..hi in order, split in halves to keep the evaluation shallow
RECURSIVE ScanWaypoints(_, _, _, _, _)
ScanWaypoints(wps, pos, lo, hi, acc) ==
    IF lo > hi THEN acc
    ELSE IF lo = hi THEN ScanStep(wps, pos, lo, acc)
    ELSE With((lo + hi) \div 2, LAMBDA mid :
         With(ScanWaypoints(wps, pos, lo, mid, acc), LAMBDA left :
             ScanWaypoints(wps, pos, mid + 1, hi, left)))

\* lines 109-119 on wpts, None or <<the waypoints list>>
closest_waypoint(wpts, pos) ==
    IF wpts # None
    THEN With(wpts[1], LAMBDA wps : ScanWaypoints(wps, pos, 1, Len(wps), <<None, -1>>)[2])
    ELSE -1

\* the same on a stored path, which is held by name
get_closest_waypoint(wpts, pos) ==
    closest_waypoint(IF wpts # None THEN Some(Lane(wpts[1])) ELSE None, pos)

----------------------------------------------------------------------------
(* process_traffic_lights *)

\* the inner loop over the stop lines: stop_pose is only overwritten by a
\* stop line closer than min_dist
RECURSIVE ScanStops(_, _, _, _, _)
ScanStops(stops, j, light_pos, min_dist, stop_pose) ==
    IF j > Len(stops) THEN stop_pose
    ELSE LET dist == SqDist(stops[j], light_pos)
         IN  IF dist < min_dist
             THEN ScanStops(stops, j + 1, light_pos, dist, stops[j])
             ELSE ScanStops(stops, j + 1, light_pos, min_dist, stop_pose)

\* line 237 without the comparison against car_position
IsCandidateNoAheadCheck(light_wp_i, car_position) ==
    light_wp_i # -1

IsCandidate(light_wp_i, car_position) ==
    light_wp_i >= car_position /\ light_wp_i # -1

\* line 238 with <= for <
IsNearerOrEqual(light_wp_i, light_wp) ==
    light_wp = None \/ light_wp_i <= light_wp[1]

IsNearer(light_wp_i, light_wp) ==
    light_wp = None \/ light_wp_i < light_wp[1]

\* the locals the loop over the lights works on; stop_pose is the one object
\* shared by all iterations, light is named by its position in the list, and
\* resolved lists the light_wp_i computed so far
LoopStart == [stop_pose |-> DefaultStop, light_wp |-> None, light |-> None,
              resolved |-> <<>>]

\* the body of the loop for the light at position i (lines 225-240)
LightStep(light_i, i, wpts, stops, car_position, acc) ==
    With(ScanStops(stops, 1, light_i, MIN_DIST_INIT, acc.stop_pose), LAMBDA sp :
    With(get_closest_waypoint(wpts, sp), LAMBDA light_wp_i :
    With(IsCandidate(light_wp_i, car_position) /\ IsNearer(light_wp_i, acc.light_wp),
         LAMBDA take :
            [stop_pose |-> sp,
             light_wp |-> IF take THEN Some(light_wp_i) ELSE acc.light_wp,
             light |-> IF take THEN Some(i) ELSE acc.light,
             resolved |-> Append(acc.resolved, light_wp_i)])))

\* the loop over the lights from position i on
RECURSIVE ScanLights(_, _, _, _, _, _)
ScanLights(ls, i, wpts, stops, car_position, acc) ==
    IF i > Len(ls) THEN acc
    ELSE With(LightStep(ls[i], i, wpts, stops, car_position, acc), LAMBDA nxt :
              ScanLights(ls, i + 1, wpts, stops, car_position, nxt))

\* line 243 with <= for <
IsVisibleInclusive(light_wp, car_position) == light_wp - car_position <= VISIBLE_RANGE

IsVisible(light_wp, car_position) == light_wp - car_position < VISIBLE_RANGE

\* lines 210-240: the vehicle's index and the loop over the lights, on the
\* stored pose, path and lights
FindLight ==
    IF pose # None
    THEN With(get_closest_waypoint(waypoints, pose[1]), LAMBDA car_position :
         With(ScanLights(lights, 1, waypoints, stop_line_positions, car_position,
                         LoopStart), LAMBDA sel :
              [car |-> Some(car_position), sel_wp |-> sel.light_wp, light |-> sel.light,
               resolved |-> sel.resolved]))
    ELSE [car |-> None, sel_wp |-> None, light |-> None, resolved |-> <<>>]

\* One call of process_traffic_lights, a being what FindLight found.
\* get_light_state (line 247) is entered with has_image already set at line
\* 74, so its early return is not taken; the pixel it projects to does not
\* reach the result, which is the answer of the classifier.
\* tf_ok: whether the transform lookup of project_to_image_plane succeeds;
\* c: what the classifier answers.  ret is <<light_wp, state>>, or None when
\* the call raises; waypoints is the value of self.waypoints it leaves.
process_traffic_lights(a, tf_ok, c) ==
    IF a.car # None /\ a.sel_wp = None
    THEN \* line 243: None - car_position
         a @@ [kind |-> "TypeError", ret |-> None, tf |-> "skipped",
               waypoints |-> waypoints]
    ELSE IF a.light # None /\ a.car # None /\ IsVisible(a.sel_wp[1], a.car[1])
    THEN IF tf_ok
         THEN a @@ [kind |-> "light", ret |-> <<a.sel_wp[1], c>>, tf |-> "ok",
                    waypoints |-> waypoints]
         ELSE \* line 154: rot is not bound after the lookup failed
              a @@ [kind |-> "UnboundLocalError", ret |-> None, tf |-> "failed",
                    waypoints |-> waypoints]
    ELSE a @@ [kind |-> "none", ret |-> <<-1, UNKNOWN>>, tf |-> "skipped",
               waypoints |-> None]

Idle == [car |-> None, sel_wp |-> None, light |-> None, resolved |-> <<>>,
         kind |-> "idle", ret |-> None, tf |-> "skipped", waypoints |-> None,
         prev_wp |-> -1]

----------------------------------------------------------------------------
(* image_cb: the debounce *)

\* line 87 with a threshold of 1
PromotesAfterOne(count) == count >= 1

\* line 87 with a threshold two higher
PromotesLate(count) == count >= STATE_COUNT_THRESHOLD + 2

Promotes(count) == count >= STATE_COUNT_THRESHOLD

\* line 89 without the test for RED
ConfirmedAnyColour(light_wp, st) == light_wp

Confirmed(light_wp, st) == IF st = RED THEN light_wp ELSE -1

\* lines 84-94 without the assignment of line 85
StabilizeNoReset(s, light_wp, st) ==
    IF s.state # st
    THEN [state |-> st, state_count |-> s.state_count + 1, last_state |-> s.last_state,
          last_wp |-> s.last_wp, pub |-> <<>>]
    ELSE IF Promotes(s.state_count)
    THEN [state |-> s.state, state_count |-> s.state_count + 1, last_state |-> s.state,
          last_wp |-> Confirmed(light_wp, st), pub |-> <<Confirmed(light_wp, st)>>]
    ELSE [state |-> s.state, state_count |-> s.state_count + 1,
          last_state |-> s.last_state, last_wp |-> s.last_wp, pub |-> <<s.last_wp>>]

\* lines 84-94 run without interruption from the debounce fields in s, on
\* the pair process_traffic_lights returned
StabilizeFrom(s, light_wp, st) ==
    IF s.state # st
    THEN [state |-> st, state_count |-> 0 + 1, last_state |-> s.last_state,
          last_wp |-> s.last_wp, pub |-> <<>>]
    ELSE IF Promotes(s.state_count)
    THEN [state |-> s.state, state_count |-> s.state_count + 1, last_state |-> s.state,
          last_wp |-> Confirmed(light_wp, st), pub |-> <<Confirmed(light_wp, st)>>]
    ELSE [state |-> s.state, state_count |-> s.state_count + 1,
          last_state |-> s.last_state, last_wp |-> s.last_wp, pub |-> <<s.last_wp>>]

\* the debounce fields as stored
Stored == [state |-> state, state_count |-> state_count, last_state |-> last_state,
           last_wp |-> last_wp]

\* lines 84-94 on the stored fields
Stabilize(light_wp, st) == StabilizeFrom(Stored, light_wp, st)

----------------------------------------------------------------------------
(* The handlers *)

NoLoc == [car |-> None, ls |-> <<>>, i |-> 1, acc |-> LoopStart]

NoQuery == [op |-> "none", arg |-> None, ans |-> None]

\* the node after __init__
NodeInit ==
    /\ pose = None
    /\ waypoints = None
    /\ lights = <<>>
    /\ has_image = FALSE
    /\ camera_image = None
    /\ stop_line_positions \in StopConfigs
    /\ state = UNKNOWN
    /\ last_state = UNKNOWN
    /\ last_wp = -1
    /\ state_count = 0
    /\ pub = <<>>
    /\ res = Idle
    /\ run = 0
    /\ base_waypoints = None
    /\ wp_path = None
    /\ pc = "idle"
    /\ loc = NoLoc

NoThreads == [t \in 1..2 |-> [pc |-> "idle", light_wp |-> -1, st |-> UNKNOWN, tmp |-> 0]]

Init == NodeInit /\ call = NoQuery /\ thr = [th |-> NoThreads, start |-> None]

pose_cb ==
    /\ \E p \in PosePts : pose' = Some(p)
    /\ pub' = <<>>
    /\ res' = Idle
    /\ UNCHANGED <<waypoints, lights, has_image, camera_image, stop_line_positions,
                   stab, run, base_waypoints, wp_path, pc, loc, call, thr>>

waypoints_cb ==
    /\ \E w \in Paths : waypoints' = Some(w) /\ base_waypoints' = Some(w)
    /\ pub' = <<>>
    /\ res' = Idle
    /\ UNCHANGED <<pose, lights, has_image, camera_image, stop_line_positions,
                   stab, run, wp_path, pc, loc, call, thr>>

traffic_cb ==
    /\ \E l \in LightLists : lights' = l
    /\ pub' = <<>>
    /\ res' = Idle
    /\ UNCHANGED <<pose, waypoints, has_image, camera_image, stop_line_positions,
                   stab, run, base_waypoints, wp_path, pc, loc, call, thr>>

\* lines 241-250 and 84-94: from the end of the loop to the end of image_cb,
\* a being what lines 210-240 found
FinishPass(a) ==
    \E tf_ok \in BOOLEAN, c \in Colours :
        \E r \in {process_traffic_lights(a, tf_ok, c)} :
            /\ res' = r @@ [prev_wp |-> last_wp]
            /\ waypoints' = r.waypoints
            /\ IF r.ret = None
               THEN /\ pub' = <<>>
                    /\ UNCHANGED <<stab, run, wp_path>>
               ELSE \E s \in {Stabilize(r.ret[1], r.ret[2])} :
                        /\ state' = s.state
                        /\ state_count' = s.state_count
                        /\ last_state' = s.last_state
                        /\ last_wp' = s.last_wp
                        /\ pub' = s.pub
                        /\ run' = IF run > 0 /\ r.ret[2] = state THEN run + 1 ELSE 1
                        /\ wp_path' = IF state = r.ret[2] /\ Promotes(state_count)
                                       THEN waypoints ELSE wp_path

\* image_cb run to completion with no other handler in between
image_cb ==
    /\ pc = "idle"
    /\ state_count < MaxCount
    /\ has_image' = TRUE
    /\ camera_image' = Some("img")
    /\ \E a \in {FindLight} : FinishPass(a)
    /\ UNCHANGED <<pose, lights, stop_line_positions, base_waypoints, pc, loc, call, thr>>

Next == pose_cb \/ waypoints_cb \/ traffic_cb \/ image_cb

Spec == Init /\ [][Next]_vars

----------------------------------------------------------------------------
(* image_cb taken step by step.  The subscriptions deliver on threads of *)
(* their own, so pose_cb, waypoints_cb and traffic_cb may run between    *)
(* the steps of a pass.                                                  *)

\* lines 74-75 and 210-223: the vehicle's index from the pose and path stored
\* now, and the list object the loop will iterate
image_begin ==
    /\ pc = "idle"
    /\ state_count < MaxCountSteps
    /\ has_image' = TRUE
    /\ camera_image' = Some("img")
    /\ pc' = "loop"
    /\ loc' = IF pose # None
              THEN [car |-> Some(get_closest_waypoint(waypoints, pose[1])),
                    ls |-> lights, i |-> 1, acc |-> LoopStart]
              ELSE [car |-> None, ls |-> <<>>, i |-> 1, acc |-> LoopStart]
    /\ pub' = <<>>
    /\ res' = Idle
    /\ UNCHANGED <<pose, waypoints, lights, stop_line_positions, stab, run,
                   base_waypoints, wp_path, call, thr>>

\* one iteration of the loop, against the path stored now
image_light ==
    /\ pc = "loop"
    /\ loc.i <= Len(loc.ls)
    /\ loc' = [loc EXCEPT !.i = loc.i + 1,
                          !.acc = LightStep(loc.ls[loc.i], loc.i, waypoints,
                                            stop_line_positions, loc.car[1], loc.acc)]
    /\ pub' = <<>>
    /\ res' = Idle
    /\ UNCHANGED <<pose, waypoints, lights, has_image, camera_image,
                   stop_line_positions, stab, run, base_waypoints, wp_path, pc, call, thr>>

image_finish ==
    /\ pc = "loop"
    /\ loc.i > Len(loc.ls)
    /\ FinishPass([car |-> loc.car, sel_wp |-> loc.acc.light_wp, light |-> loc.acc.light,
                   resolved |-> loc.acc.resolved])
    /\ pc' = "idle"
    /\ loc' = NoLoc
    /\ UNCHANGED <<pose, lights, has_image, camera_image, stop_line_positions,
                   base_waypoints, call, thr>>

NextSteps == pose_cb \/ waypoints_cb \/ traffic_cb
                \/ image_begin \/ image_light \/ image_finish

SpecSteps == Init /\ [][NextSteps]_vars

----------------------------------------------------------------------------
(* One method called on its own, on arguments drawn from bounded sets *)

node == <<pose, waypoints, lights, has_image, camera_image, stop_line_positions,
          state, last_state, last_wp, state_count, pub, res, run, base_waypoints, wp_path,
          pc, loc>>

GridPts == {<<x, y>> : x \in 0..2, y \in 0..1}

RECURSIVE SeqsUpTo(_, _)
SeqsUpTo(S, n) ==
    IF n = 0 THEN {<<>>}
    ELSE With(SeqsUpTo(S, n - 1), LAMBDA shorter :
              shorter \cup {Append(w, x) : w \in shorter, x \in S})

\* get_closest_waypoint(pose) with self.waypoints unset or any short path
NearestArgs ==
    {<<wpts, pos>> : wpts \in {None} \cup {Some(w) : w \in SeqsUpTo(GridPts, MaxPathLen)},
                     pos \in GridPts}

\* positions of lights and stop lines on and far off the straight path
FarPts == {<<0, 0>>, <<1, 1>>, <<100, 0>>, <<2000, 0>>}

\* the loop of lines 224-240 on any short light list and stop-line list
AssociateArgs ==
    {<<ls, stops, wpts>> : ls \in SeqsUpTo(FarPts, MaxListLen),
                           stops \in SeqsUpTo(FarPts \ {<<0, 0>>}, MaxListLen),
                           wpts \in {Some("U"), Some("straight")}}

\* line 193: half the side of the window cut out around the projected pixel
HALF_WIDTH == 16

Max(a, b) == IF a >= b THEN a ELSE b
Min(a, b) == IF a <= b THEN a ELSE b

\* how many of n elements the slice [lo:hi] of an array holds: a negative
\* bound counts from the end, and both are then cut to 0..n
SliceLen(lo, hi, n) ==
    LET Norm(k) == IF k < 0 THEN Max(k + n, 0) ELSE Min(k, n)
    IN  Max(Norm(hi) - Norm(lo), 0)

\* lines 190-196 for the projected pixel (x, y) and an image w wide and h
\* high: the four bounds, and the rows and columns of im_light
region_of_interest(x, y, w, h) ==
    LET x0 == Max(x - HALF_WIDTH, 0)
        x1 == Min(x + HALF_WIDTH, w)
        y0 == Max(y - HALF_WIDTH, 0)
        y1 == Min(y + HALF_WIDTH, h)
    IN  [x0 |-> x0, x1 |-> x1, y0 |-> y0, y1 |-> y1,
         rows |-> SliceLen(y0, y1, h), cols |-> SliceLen(x0, x1, w)]

\* width and height of the camera image
ImageSizes == {<<24, 8>>}

\* projected pixels inside the image and off each of its sides
RoiArgs == {<<x, y, wh[1], wh[2]>> : x \in (0 - MaxPixel)..MaxPixel,
                                     y \in (0 - MaxPixel)..MaxPixel, wh \in ImageSizes}

InitQuery ==
    /\ NodeInit
    /\ thr = [th |-> NoThreads, start |-> None]
    /\ call \in {[op |-> "nearest", arg |-> a, ans |-> None] : a \in NearestArgs}
              \cup {[op |-> "associate", arg |-> a, ans |-> None] : a \in AssociateArgs}
              \cup {[op |-> "roi", arg |-> a, ans |-> None] : a \in RoiArgs}

call_get_closest_waypoint ==
    /\ call.op = "nearest" /\ call.ans = None
    /\ call' = [call EXCEPT !.ans = Some(closest_waypoint(call.arg[1], call.arg[2]))]
    /\ UNCHANGED <<node, thr>>

\* the loop over the lights with the vehicle at index 0; the answer lists
\* the light_wp_i of line 236, one for each light
call_associate ==
    /\ call.op = "associate" /\ call.ans = None
    /\ call' = [call EXCEPT !.ans =
                   Some(ScanLights(call.arg[1], 1, call.arg[3], call.arg[2], 0,
                                   LoopStart).resolved)]
    /\ UNCHANGED <<node, thr>>

call_region_of_interest ==
    /\ call.op = "roi" /\ call.ans = None
    /\ call' = [call EXCEPT !.ans =
                   Some(region_of_interest(call.arg[1], call.arg[2], call.arg[3],
                                           call.arg[4]))]
    /\ UNCHANGED <<node, thr>>

NextQuery == call_get_closest_waypoint \/ call_associate \/ call_region_of_interest

SpecQuery == InitQuery /\ [][NextQuery]_vars

----------------------------------------------------------------------------
(* Two image events delivered at once.  image_cb takes no lock, so the    *)
(* two threads interleave statement by statement; `self.state_count += 1` *)
(* is a read followed by a write.  Each thread is followed from the       *)
(* return of process_traffic_lights at line 76.                           *)

\* what process_traffic_lights may have returned to a thread
ReturnPairs == {<<-1, UNKNOWN>>} \cup {<<0, c>> : c \in Colours}

deliver_two ==
    /\ \A t \in 1..2 : thr.th[t].pc \in {"idle", "done"}
    /\ state_count < MaxCountTwo
    /\ \E r1 \in ReturnPairs, r2 \in ReturnPairs :
         thr' = [th |-> [t \in 1..2 |->
                          [pc |-> "l84", tmp |-> 0,
                           light_wp |-> IF t = 1 THEN r1[1] ELSE r2[1],
                           st |-> IF t = 1 THEN r1[2] ELSE r2[2]]],
                 start |-> Some(Stored)]
    /\ pub' = <<>>
    /\ has_image' = TRUE
    /\ camera_image' = Some("img")
    /\ UNCHANGED <<pose, waypoints, lights, stop_line_positions, stab, res, run,
                   base_waypoints, wp_path, pc, loc, call>>

\* thread t moves to position p
Goto(t, p) == thr' = [thr EXCEPT !.th[t].pc = p]

\* one statement of lines 84-94 in thread t
thread_step(t) ==
    LET me == thr.th[t] IN
    /\ me.pc \notin {"idle", "done"}
    /\ CASE me.pc = "l84" ->
              /\ Goto(t, IF state # me.st THEN "l85" ELSE "l87")
              /\ UNCHANGED <<stab, pub>>
         [] me.pc = "l85" ->
              /\ state_count' = 0
              /\ Goto(t, "l86")
              /\ UNCHANGED <<state, last_state, last_wp, pub>>
         [] me.pc = "l86" ->
              /\ state' = me.st
              /\ Goto(t, "l94")
              /\ UNCHANGED <<state_count, last_state, last_wp, pub>>
         [] me.pc = "l87" ->
              /\ Goto(t, IF Promotes(state_count) THEN "l88" ELSE "l93")
              /\ UNCHANGED <<stab, pub>>
         [] me.pc = "l88" ->
              /\ last_state' = state
              /\ Goto(t, "l89")
              /\ UNCHANGED <<state, state_count, last_wp, pub>>
         [] me.pc = "l89" ->
              /\ last_wp' = Confirmed(me.light_wp, me.st)
              /\ Goto(t, "l91")
              /\ UNCHANGED <<state, state_count, last_state, pub>>
         [] me.pc = "l91" ->
              /\ pub' = Append(pub, Confirmed(me.light_wp, me.st))
              /\ Goto(t, "l94")
              /\ UNCHANGED stab
         [] me.pc = "l93" ->
              /\ pub' = Append(pub, last_wp)
              /\ Goto(t, "l94")
              /\ UNCHANGED stab
         [] me.pc = "l94" ->
              /\ thr' = [thr EXCEPT !.th[t].pc = "l94w", !.th[t].tmp = state_count]
              /\ UNCHANGED <<stab, pub>>
         [] me.pc = "l94w" ->
              /\ state_count' = me.tmp + 1
              /\ Goto(t, "done")
              /\ UNCHANGED <<state, last_state, last_wp, pub>>
    /\ UNCHANGED <<pose, waypoints, lights, has_image, camera_image,
                   stop_line_positions, res, run, base_waypoints, wp_path, pc, loc, call>>

NextTwo == deliver_two \/ \E t \in 1..2 : thread_step(t)

SpecTwo == Init /\ [][NextTwo]_vars

----------------------------------------------------------------------------
(* Properties *)

\* the last step was an image pass
IsPass == res.kind # "idle"
\* the last step was an image pass in which process_traffic_lights returned
Returned == IsPass /\ res.ret # None

\* C1: a pass publishes a value other than the one remembered before it
\* (last_wp) only when the same raw colour has been delivered by at least
\* STATE_COUNT_THRESHOLD consecutive passes; below that count what is
\* published is the remembered value, which stays as it was.
C1_ChangeNeedsThreshold ==
    (IsPass /\ pub # <<>>) =>
        /\ (pub[1] # res.prev_wp => run >= STATE_COUNT_THRESHOLD)
        /\ (run < STATE_COUNT_THRESHOLD => pub[1] = res.prev_wp /\ last_wp = res.prev_wp)

C1_Witness ==
    /\ IsPass /\ pub # <<>> /\ pub[1] # res.prev_wp
    /\ res.prev_wp = -1 /\ pub[1] = res.ret[1] /\ res.ret[2] = RED

\* C2: the third consecutive pass that delivers RED with stop index s
\* publishes s, and the two before it publish the value remembered before.
C2_ThirdRedPublishes ==
    (Returned /\ res.ret[2] = RED) =>
        /\ (run = STATE_COUNT_THRESHOLD => pub = <<res.ret[1]>>)
        /\ (run < STATE_COUNT_THRESHOLD => last_wp = res.prev_wp)

\* C3: every image pass publishes exactly one integer.
C3_OnePublishPerPass == IsPass => Len(pub) = 1

\* C4: a pass without a candidate light returns (-1, UNKNOWN) without
\* classifying and without raising.
C4_NoCandidateRecovered ==
    (IsPass /\ res.sel_wp = None) =>
        (res.kind = "none" /\ res.ret = <<-1, UNKNOWN>> /\ res.tf = "skipped")

\* C5: with an empty light list every pass publishes -1 on that pass.
C5_EmptyLightsPublishMinusOne == (IsPass /\ lights = <<>>) => pub = <<-1>>

\* C6: a pass whose transform lookup fails does not raise and hands the
\* debounce the raw colour UNKNOWN, without promoting.
C6_TransformFailureIsUnknown ==
    (IsPass /\ res.tf = "failed") =>
        /\ res.ret # None /\ res.ret[2] = UNKNOWN
        /\ state = UNKNOWN /\ last_wp = res.prev_wp

\* C7: an image pass (the only caller of process_traffic_lights) leaves the
\* stored path and the stored light list as they were.
C7_AssociationIsPure ==
    [][res'.kind # "idle" => (waypoints' = waypoints /\ lights' = lights)]_vars

\* C8: once a path has been received, the stored path is the path received
\* last, and get_closest_waypoint answers -1 only if that path is empty.
C8_StoredPathIsLatest ==
    base_waypoints # None =>
        /\ waypoints = base_waypoints
        /\ \A p \in PosePts :
              get_closest_waypoint(waypoints, p) = -1 => Lane(base_waypoints[1]) = <<>>

\* C9: a light returned by process_traffic_lights comes with a stop index
\* that is not -1 and not behind the vehicle index computed in that pass.
C9_ReturnedIndexAhead ==
    res.kind = "light" => (res.ret[1] # -1 /\ res.ret[1] >= res.car[1])

\* a light is returned, another light of the list resolved behind the
\* vehicle, and the pose or the path was replaced while the pass ran (the
\* stored ones no longer give the vehicle index the pass computed)
C9_Witness ==
    /\ res.kind = "light" /\ res.ret[1] >= res.car[1]
    /\ \E i \in 1..Len(res.resolved) : res.resolved[i] < res.car[1]
    /\ res.car[1] # get_closest_waypoint(waypoints, pose[1])

\* the lights of the last pass whose resolved stop index is a path index at
\* or ahead of the vehicle
Ahead == {i \in 1..Len(res.resolved) :
            res.resolved[i] # -1 /\ res.resolved[i] >= res.car[1]}

\* C10: when some light resolves at or ahead of the vehicle, the light
\* selected is the first in list order among those of smallest resolved index.
C10_SmallestIndexSelected ==
    (IsPass /\ res.car # None /\ Ahead # {}) =>
        \E i \in Ahead :
            /\ \A j \in Ahead : res.resolved[i] <= res.resolved[j]
            /\ \A j \in Ahead : res.resolved[j] = res.resolved[i] => i <= j
            /\ res.light = Some(i)
            /\ res.sel_wp = Some(res.resolved[i])

\* the second light is selected although the first is nearer to the vehicle
C10_Witness ==
    /\ res.kind = "light" /\ Len(lights) = 2 /\ Ahead = {1, 2}
    /\ res.light = Some(2) /\ res.ret[1] = res.resolved[2]
    /\ SqDist(lights[1], pose[1]) < SqDist(lights[2], pose[1])

\* C11: a selected light whose stop index is exactly VISIBLE_RANGE ahead of
\* the vehicle index is not visible: the pass returns (-1, UNKNOWN) and does
\* not classify.  One index nearer it is visible: the light is handed to
\* get_light_state and what the pass returns carries its stop index.
C11_VisibilityBoundary ==
    (IsPass /\ res.car # None /\ res.sel_wp # None) =>
        /\ (res.sel_wp[1] - res.car[1] = VISIBLE_RANGE =>
                res.kind = "none" /\ res.ret = <<-1, UNKNOWN>> /\ res.tf = "skipped")
        /\ (res.sel_wp[1] - res.car[1] = VISIBLE_RANGE - 1 =>
                /\ res.tf # "skipped"
                /\ res.kind \in {"light", "UnboundLocalError"}
                /\ (res.ret # None => res.ret[1] = res.sel_wp[1]))

\* a light 99 indices ahead is classified and returned
C11_Witness ==
    /\ res.kind = "light" /\ res.car # None
    /\ res.ret[1] - res.car[1] = VISIBLE_RANGE - 1

\* the squared distance from waypoint j of the call to its query point
QDist(j) == SqDist(call.arg[1][1][j], call.arg[2])

\* C12: get_closest_waypoint answers -1 when the path is unset or empty, and
\* otherwise the first index among those whose waypoint is nearest (by squared
\* 2D distance) to the query point.
C12_NearestFirstIndex ==
    (call.op = "nearest" /\ call.ans # None) =>
        IF call.arg[1] = None \/ call.arg[1] = Some(<<>>)
        THEN call.ans[1] = -1
        ELSE /\ call.ans[1] \in 0..(Len(call.arg[1][1]) - 1)
             /\ \A j \in 1..Len(call.arg[1][1]) :
                   /\ QDist(call.ans[1] + 1) <= QDist(j)
                   /\ (QDist(j) = QDist(call.ans[1] + 1) => call.ans[1] + 1 <= j)

\* the nearest waypoint is not the first of the path and a later one is as near
C12_Witness ==
    /\ call.op = "nearest" /\ call.ans # None /\ call.arg[1] # None
    /\ Len(call.arg[1][1]) = 3 /\ call.ans[1] = 1
    /\ QDist(3) = QDist(2) /\ QDist(1) > QDist(2)

\* the debounce fields after the passes on r1 and then r2, one after the other
Serial(s, r1, r2) ==
    With(StabilizeFrom(s, r1[1], r1[2]), LAMBDA a :
    With(StabilizeFrom(a, r2[1], r2[2]), LAMBDA b :
         [state |-> b.state, state_count |-> b.state_count,
          last_state |-> b.last_state, last_wp |-> b.last_wp]))

ThreadPair(t) == <<thr.th[t].light_wp, thr.th[t].st>>

\* C13: when two image events delivered at once have both been handled, the
\* debounce fields are what handling them one after the other, in one of the
\* two orders, leaves.
C13_TwoPassesSerialized ==
    (\A t \in 1..2 : thr.th[t].pc = "done") =>
        Stored \in {Serial(thr.start[1], ThreadPair(1), ThreadPair(2)),
                    Serial(thr.start[1], ThreadPair(2), ThreadPair(1))}

\* the last step was an image pass that took the branch of lines 88-91
Promoted == Returned /\ state_count > STATE_COUNT_THRESHOLD

\* C14: the remembered value is other than -1 only while the confirmed
\* colour is RED, so a pass publishes a value other than -1 only then; a
\* promoting pass publishes and remembers its stop index if its raw colour
\* is RED and -1 otherwise, and confirms that colour.
C14_PublishedByConfirmedColour ==
    /\ (last_wp # -1 => last_state = RED)
    /\ ((IsPass /\ pub # <<>> /\ pub[1] # -1) => last_state = RED)
    /\ Promoted =>
           /\ pub = <<IF res.ret[2] = RED THEN res.ret[1] ELSE -1>>
           /\ last_wp = pub[1]
           /\ last_state = res.ret[2]

\* a pass promotes GREEN while a stop index was remembered
C14_Witness ==
    /\ Promoted /\ res.ret[2] = "GREEN" /\ res.ret[1] # -1
    /\ res.prev_wp # -1 /\ pub = <<-1>>

C15_Step ==
    /\ (Returned' /\ res'.ret[2] # state) =>
           /\ state' = res'.ret[2]
           /\ state_count' = 0 + 1
           /\ UNCHANGED <<last_state, last_wp>>
    /\ (Returned' /\ last_state' # last_state) =>
           /\ run' > STATE_COUNT_THRESHOLD
           /\ state_count' = run'

\* C15: a pass whose raw colour differs from the observed one records the
\* new colour and restarts the count (set to 0 at line 85, the pass itself
\* then counted at line 94) without touching what is confirmed; a colour
\* becomes the confirmed one only on a pass that ends an unbroken run of
\* more than STATE_COUNT_THRESHOLD passes with that colour, counted from
\* the pass that changed the observed colour.
C15_ChangeRestartsRun == [][C15_Step]_vars

\* RED is confirmed, a run of another colour broke it off before being
\* promoted, and the first RED pass after it has restarted the count
C15_Witness ==
    /\ Returned /\ res.ret[2] = RED /\ state = RED /\ state_count = 1
    /\ last_state = RED /\ last_wp # -1 /\ pub = <<>>

\* stop line j is one of the nearest to the light at p
NearestStop(stops, j, p) ==
    \A k \in 1..Len(stops) : SqDist(stops[j], p) <= SqDist(stops[k], p)

\* C16: with any stop lines at all, the index resolved for each light is
\* that of a stop line nearest to that light, whatever came before it in
\* the light list.
C16_NearestStopLineResolved ==
    (call.op = "associate" /\ call.ans # None /\ call.arg[2] # <<>>) =>
        \A i \in 1..Len(call.arg[1]) :
            \E j \in 1..Len(call.arg[2]) :
                /\ NearestStop(call.arg[2], j, call.arg[1][i])
                /\ call.ans[1][i] = get_closest_waypoint(call.arg[3], call.arg[2][j])

\* C17: a value other than -1 that a pass publishes was resolved against
\* the path most recently received.
C17_PublishedIndexOnLatestPath ==
    (IsPass /\ pub # <<>> /\ pub[1] # -1) => wp_path = base_waypoints

Clamp(k, n) == Max(0, Min(k, n))

\* C18: for a projected pixel anywhere, the four bounds are those of the
\* window of half-width HALF_WIDTH clamped to the image, each within the
\* image, and the region cut out is that clamped window, so it is empty
\* when the window does not meet the image.
C18_RegionClampedToImage ==
    (call.op = "roi" /\ call.ans # None) =>
        LET x == call.arg[1]
            y == call.arg[2]
            w == call.arg[3]
            h == call.arg[4]
            r == call.ans[1]
        IN  /\ r.x0 = Clamp(x - HALF_WIDTH, w) /\ r.x1 = Clamp(x + HALF_WIDTH, w)
            /\ r.y0 = Clamp(y - HALF_WIDTH, h) /\ r.y1 = Clamp(y + HALF_WIDTH, h)
            /\ r.cols = r.x1 - r.x0 /\ r.rows = r.y1 - r.y0
            /\ (x + HALF_WIDTH <= 0 \/ x - HALF_WIDTH >= w
                 \/ y + HALF_WIDTH <= 0 \/ y - HALF_WIDTH >= h)
                    => r.rows = 0 \/ r.cols = 0

\* C19: once more than STATE_COUNT_THRESHOLD passes in a row have returned
\* the same raw colour, each of them publishes, and the node remembers,
\* that pass's stop index if the colour is RED and -1 otherwise: from the
\* fourth pass of the run on no older value is republished.
C19_SettlesWithinFourPasses ==
    (Returned /\ run > STATE_COUNT_THRESHOLD) =>
        /\ pub = <<Confirmed(res.ret[1], res.ret[2])>>
        /\ last_wp = Confirmed(res.ret[1], res.ret[2])
        /\ last_state = res.ret[2]

\* the fifth RED pass in a row publishes its stop index once more
C19_Witness ==
    /\ Returned /\ run = STATE_COUNT_THRESHOLD + 2 /\ res.ret[2] = RED
    /\ res.ret[1] # -1 /\ pub = <<res.ret[1]>> /\ res.prev_wp = res.ret[1]

====
